---- MODULE Spec2Model ----
(***************************************************************************)
(* vertical_text_to_video: a quote and its author are laid out as vertical *)
(* columns, animated character by character in a headless browser,         *)
(* captured frame by frame and assembled with ffmpeg.                      *)
(*                                                                         *)
(*   calculateAnimationData  (animation-utils, src/unnamed/part_000)       *)
(*   generateFrames / generateFrame  (src/generate-video-frames.js)        *)
(*                                                                         *)
(* Text is a sequence of UTF-16 code units, one token per unit.  Times are *)
(* in milliseconds: every time the program computes is a multiple of 0.5 s *)
(* (ANIMATION_SPEED = 0.5 and the delays 1.0, 1.5, 0.5), which binary      *)
(* floating point represents exactly, so integer arithmetic on             *)
(* milliseconds computes what the JavaScript numbers compute.              *)
(***************************************************************************)
EXTENDS Integers, Sequences, FiniteSets, TLC

VARIABLES
    options,        \* the parsed command line: quote, author, force, hideQrcode
    pc,             \* position of the run in generateFrames / generateFrame
    finalOutput,    \* the file at options.finalOutput exists
    thumbnail,      \* the .jpg beside the final output exists
    frameFiles,     \* indices n for which <tmp>/frame_n.png exists
    silentVideo,    \* <tmp>/output_no_audio.mp4 exists
    browser,        \* "none", "open" or "closed"
    animData,       \* result of calculateAnimationData
    totalDuration,  \* ms
    totalFrames,
    frameCount,     \* the closure variable of generateFrame
    inflight,       \* renderer / ffmpeg operation awaited right now
    seekTime,       \* last animation time set on the page, as <<f, FPS>>
    captured,       \* frame indices this run captured, in capture order
    duration,       \* probed music duration, ms
    startTime,      \* chosen music start, seconds
    stagesStarted,  \* assembly stages started by this run, in order
    stagesDone,     \* assembly stages that completed successfully
    thumbIndex,     \* frame index given to the thumbnail extraction
    removedByRun,   \* this run has unlinked a file
    exitCode,       \* status the process ended with, -1 while it runs
    reported,       \* what the run printed on stderr when it ended
    prevExit,       \* status of the previous run of the program, -1 if none
    speedArg,       \* the animationSpeed calculateAnimationData is given, ms
    htmlContent     \* the animation delays of the page: quote and author
                    \* characters, logo, QR code

vars ==
    <<options, pc, finalOutput, thumbnail, frameFiles, silentVideo, browser,
      animData, totalDuration, totalFrames, frameCount, inflight, seekTime,
      captured, duration, startTime, stagesStarted, stagesDone, thumbIndex,
      removedByRun, exitCode, reported, prevExit, speedArg, htmlContent>>

(***************************************************************************)
(* Bounds of the model.                                                    *)
(***************************************************************************)
\* longest run of one repeated character in a quote given to segmentation
MaxRun == 11
\* longest quote given to a whole run of the program
MaxRunQuoteLen == 2
\* longest music track, in units of TrackStep
MaxTrackSteps == 6
\* longest quote whose timeline and page are computed
MaxPageQuoteLen == 6
\* largest animationSpeed given to calculateAnimationData, in tenths of 1 s
MaxSpeedTenths == 5

(***************************************************************************)
(* Program constants.                                                      *)
(***************************************************************************)
MAX_CHARS_PER_LINE == 10
FPS == 30
\* 0.5 s, 1.0 s, 1.5 s, 0.5 s in milliseconds
ANIMATION_SPEED == 500
INITIAL_DELAY == 1000
ENDING_DELAY == 1500
AUTHOR_LOGO_GAP == 500
\* the literal 2 (seconds) of maxStartTime, in milliseconds
SAFETY_MARGIN == 2000

delimiters ==
    {"FW_COMMA", "FW_PERIOD", "FW_QUESTION", "FW_ENUM_COMMA", "FW_COLON",
     "FW_EXCLAMATION", "FW_SEMICOLON", ",", "."}

\* characters String.prototype.trim removes
WhiteSpace ==
    {" ", "\t", "\n", "IDEOGRAPHIC_SPACE"}

Min(S) ==
    CHOOSE x \in S : \A y \in S : x <= y

Max(S) ==
    CHOOSE x \in S : \A y \in S : x >= y

\* Math.ceil(n / d) for n >= 0, d > 0
Ceil(n, d) ==
    (n + d - 1) \div d

\* String.prototype.slice(a, b) with 0 <= a <= b
slice(s, a, b) ==
    SubSeq(s, a + 1, IF b < Len(s) THEN b ELSE Len(s))

\* String.prototype.split on the character class of the delimiters: the
\* pieces between delimiters, empty pieces included
RECURSIVE split(_)
split(s) ==
    LET hits == {i \in 1..Len(s) : s[i] \in delimiters}
    IN  IF hits = {}
        THEN <<s>>
        ELSE <<SubSeq(s, 1, Min(hits) - 1)>>
                 \o split(SubSeq(s, Min(hits) + 1, Len(s)))

\* String.prototype.trim
trim(s) ==
    LET keep == {i \in 1..Len(s) : s[i] \notin WhiteSpace}
    IN  IF keep = {} THEN <<>> ELSE SubSeq(s, Min(keep), Max(keep))

\* quote.split(...).map(trim).filter(length > 0)
quoteLinesOf(quote) ==
    LET pieces == split(quote)
        trimmed == [i \in 1..Len(pieces) |-> trim(pieces[i])]
    IN  SelectSeq(trimmed, LAMBDA q : Len(q) > 0)

\* a loop that stops one chunk early
RECURSIVE hardWrap_stopEarly(_, _)
hardWrap_stopEarly(line, i) ==
    IF i + MAX_CHARS_PER_LINE < Len(line)
    THEN <<slice(line, i, i + MAX_CHARS_PER_LINE)>>
             \o hardWrap_stopEarly(line, i + MAX_CHARS_PER_LINE)
    ELSE <<>>

\* the for loop of lines 17-20, from index i on
RECURSIVE hardWrap(_, _)
hardWrap(line, i) ==
    IF i < Len(line)
    THEN <<slice(line, i, i + MAX_CHARS_PER_LINE)>>
             \o hardWrap(line, i + MAX_CHARS_PER_LINE)
    ELSE <<>>

\* a long line cut to its first chunk instead of wrapped
pushLine_truncate(line) ==
    IF Len(line) > MAX_CHARS_PER_LINE
    THEN <<slice(line, 0, MAX_CHARS_PER_LINE)>>
    ELSE <<line>>

\* the body of quoteLines.forEach: what one line pushes
pushLine(line) ==
    IF Len(line) > MAX_CHARS_PER_LINE THEN hardWrap(line, 0) ELSE <<line>>

\* quoteLines.forEach from index i on
RECURSIVE forEachLine(_, _)
forEachLine(quoteLines, i) ==
    IF i > Len(quoteLines)
    THEN <<>>
    ELSE pushLine(quoteLines[i]) \o forEachLine(quoteLines, i + 1)

\* a fallback that forgets the trim
processedLinesOf_untrimmed(quote) ==
    LET processedLines == forEachLine(quoteLinesOf(quote), 1)
    IN  IF Len(processedLines) = 0 THEN <<quote>> ELSE processedLines

\* processedLines after the fallback of lines 27-29
processedLinesOf(quote) ==
    LET processedLines == forEachLine(quoteLinesOf(quote), 1)
    IN  IF Len(processedLines) = 0 THEN <<trim(quote)>> ELSE processedLines

HighSurrogates ==
    {"HI"}

LowSurrogates ==
    {"LO"}

\* [...author]: the string iterator yields code points, a surrogate pair as
\* one element
RECURSIVE spread(_)
spread(s) ==
    IF Len(s) = 0
    THEN <<>>
    ELSE IF Len(s) >= 2 /\ s[1] \in HighSurrogates /\ s[2] \in LowSurrogates
         THEN <<SubSeq(s, 1, 2)>> \o spread(SubSeq(s, 3, Len(s)))
         ELSE <<SubSeq(s, 1, 1)>> \o spread(SubSeq(s, 2, Len(s)))

\* one element of processedLines.map
lineDataOf(line, accumulatedDelay, animationSpeed) ==
    [text |-> line,
     delay |-> accumulatedDelay,
     duration |-> Len(line) * animationSpeed]

\* the gap of two units between lines is left out
lineAdvance_noGap(line, animationSpeed) ==
    Len(line) * animationSpeed

\* the increment of accumulatedDelay after one line
lineAdvance(line, animationSpeed) ==
    (Len(line) + 2) * animationSpeed

\* processedLines.map from index i on, with the running accumulatedDelay
RECURSIVE mapLines(_, _, _, _)
mapLines(lines, i, accumulatedDelay, animationSpeed) ==
    IF i > Len(lines)
    THEN [data |-> <<>>, accumulatedDelay |-> accumulatedDelay]
    ELSE LET rest == mapLines(lines, i + 1,
                        accumulatedDelay + lineAdvance(lines[i], animationSpeed),
                        animationSpeed)
         IN  [data |-> <<lineDataOf(lines[i], accumulatedDelay, animationSpeed)>>
                           \o rest.data,
              accumulatedDelay |-> rest.accumulatedDelay]

calculateAnimationData(quote, author, animationSpeed) ==
    LET processedLines == processedLinesOf(quote)
        authorText == spread(author)
        mapped == mapLines(processedLines, 1, 0, animationSpeed)
    IN  [quoteLineData |-> mapped.data,
         authorText |-> authorText,
         baseDuration |-> mapped.accumulatedDelay
                              + Len(authorText) * animationSpeed]

NoAnimData ==
    [quoteLineData |-> <<>>, authorText |-> <<>>, baseDuration |-> 0]

NoHtml ==
    [quoteColumns |-> <<>>, authorChars |-> <<>>, logo |-> -1, qrcode |-> <<>>]

NoReport ==
    [kind |-> "none", frame |-> -1, cause |-> "none"]

(***************************************************************************)
(* Inputs.                                                                 *)
(***************************************************************************)
Rep(c, n) ==
    [i \in 1..n |-> c]

\* sequences over S of length at most n
RECURSIVE SeqsUpTo(_, _)
SeqsUpTo(S, n) ==
    IF n = 0
    THEN {<<>>}
    ELSE LET shorter == SeqsUpTo(S, n - 1)
         IN  shorter \cup {Append(s, c) : s \in shorter, c \in S}

\* n times the code units of one character
RECURSIVE RepChar(_, _)
RepChar(ch, n) ==
    IF n = 0 THEN <<>> ELSE ch \o RepChar(ch, n - 1)

\* characters of the quotes given to segmentation, each as its code units:
\* two letters, an ASCII and a full-width delimiter, a blank, an ASCII
\* question mark and a character outside the basic plane (a surrogate pair)
SegChars ==
    {<<"a">>, <<"b">>, <<",">>, <<"FW_PERIOD">>, <<" ">>, <<"?">>,
     <<"HI", "LO">>}

\* a quote given to segmentation: three runs of a repeated character
SegQuote(c1, n1, c2, n2, c3, n3) ==
    RepChar(c1, n1) \o RepChar(c2, n2) \o RepChar(c3, n3)

\* authors given to a whole run of the program
RunAuthors ==
    {<<>>, <<"x">>}

\* music tracks are probed at multiples of this many milliseconds
TrackStep == 1500

MusicDurations ==
    {k * TrackStep : k \in 1..MaxTrackSteps}

RunOptions ==
    [quote : SeqsUpTo({"a", ","}, MaxRunQuoteLen),
     author : RunAuthors,
     force : BOOLEAN,
     hideQrcode : {FALSE}]

\* quotes and authors whose timeline and page are computed
PageQuotes ==
    SeqsUpTo({"a", ","}, MaxPageQuoteLen)

PageAuthors ==
    {<<>>, <<"x">>, <<"x", "y">>, <<"HI", "LO">>, <<"x", "HI", "LO">>}

PageOptions ==
    [quote : PageQuotes,
     author : PageAuthors,
     force : {FALSE},
     hideQrcode : BOOLEAN]

\* values of the animationSpeed parameter: 0.1 s (its default), 0.2 s, ...
Speeds ==
    {100 * k : k \in 1..MaxSpeedTenths}

(***************************************************************************)
(* State of a process that has just been started.                          *)
(***************************************************************************)
FreshRun ==
    /\ browser = "none"
    /\ animData = NoAnimData
    /\ totalDuration = 0
    /\ totalFrames = 0
    /\ frameCount = 0
    /\ inflight = {}
    /\ seekTime = <<-1, FPS>>
    /\ captured = <<>>
    /\ duration = 0
    /\ startTime = 0
    /\ stagesStarted = <<>>
    /\ stagesDone = {}
    /\ thumbIndex = -1
    /\ removedByRun = FALSE
    /\ exitCode = -1
    /\ reported = NoReport
    /\ htmlContent = NoHtml

Init ==
    /\ options \in RunOptions
    /\ pc = "start"
    /\ finalOutput = FALSE
    /\ thumbnail = FALSE
    /\ frameFiles = {}
    /\ silentVideo = FALSE
    /\ prevExit = -1
    /\ speedArg = ANIMATION_SPEED
    /\ FreshRun

runVars ==
    <<browser, animData, totalDuration, totalFrames, frameCount, inflight,
      seekTime, captured, duration, startTime, stagesStarted, stagesDone,
      thumbIndex, removedByRun>>

fsVars ==
    <<finalOutput, thumbnail, frameFiles, silentVideo>>

\* process.exit(code) after printing report
Exit(code, report) ==
    /\ pc' = "exited"
    /\ exitCode' = code
    /\ reported' = report

(***************************************************************************)
(* generateFrames                                                          *)
(***************************************************************************)
\* the message is printed but the process is not ended
CheckOutput_noExit ==
    /\ pc = "start"
    /\ pc' = "clean"
    /\ UNCHANGED <<speedArg, htmlContent>>
    /\ UNCHANGED <<options, fsVars, runVars, exitCode, reported, prevExit>>

\* lines 89-101: fs.access(finalOutputPath); exit 1 unless --force
CheckOutput ==
    /\ pc = "start"
    /\ IF finalOutput /\ ~options.force
       THEN Exit(1, [kind |-> "conflict", frame |-> -1, cause |-> "exists"])
       ELSE /\ pc' = "clean"
            /\ UNCHANGED <<exitCode, reported>>
    /\ UNCHANGED <<speedArg, htmlContent>>
    /\ UNCHANGED <<options, fsVars, runVars, prevExit>>

\* the tmp directory is created but the files in it are left alone
CleanTmp_keepFiles ==
    /\ pc = "clean"
    /\ pc' = "launch"
    /\ UNCHANGED <<speedArg, htmlContent>>
    /\ UNCHANGED <<options, fsVars, runVars, exitCode, reported, prevExit>>

\* lines 103-121: create the directories, unlink every file of the tmp
\* directory (the frames and the silent video live there)
CleanTmp ==
    /\ pc = "clean"
    /\ frameFiles' = {}
    /\ silentVideo' = FALSE
    /\ removedByRun' = (frameFiles # {} \/ silentVideo)
    /\ pc' = "launch"
    /\ UNCHANGED <<speedArg, htmlContent>>
    /\ UNCHANGED <<options, finalOutput, thumbnail, browser, animData,
                   totalDuration, totalFrames, frameCount, inflight, seekTime,
                   captured, duration, startTime, stagesStarted, stagesDone,
                   thumbIndex, exitCode, reported, prevExit>>

\* lines 129-134: puppeteer.launch, newPage, setViewport
LaunchBrowser ==
    /\ pc = "launch"
    /\ browser' = "open"
    /\ pc' = "calc"
    /\ UNCHANGED <<speedArg, htmlContent>>
    /\ UNCHANGED <<options, fsVars, animData, totalDuration, totalFrames,
                   frameCount, inflight, seekTime, captured, duration,
                   startTime, stagesStarted, stagesDone, thumbIndex,
                   removedByRun, exitCode, reported, prevExit>>

\* the gap between author and logo is left out of the sum
totalDurationOf_noGap(baseDuration) ==
    INITIAL_DELAY + baseDuration + ENDING_DELAY

\* lines 168-172
totalDurationOf(baseDuration) ==
    INITIAL_DELAY + baseDuration + AUTHOR_LOGO_GAP + ENDING_DELAY

\* Math.floor(...) + 1 in place of Math.ceil
totalFramesOf_floorPlusOne(total) ==
    ((total * FPS) \div 1000) + 1

\* line 175: Math.ceil(totalDuration * FPS), totalDuration in ms
totalFramesOf(total) ==
    Ceil(total * FPS, 1000)

\* the end of the last line taken with the gap that follows every line
quoteEndTimeOf_withGap(quoteLineData) ==
    LET lastLineData == quoteLineData[Len(quoteLineData)]
    IN  lastLineData.delay + (Len(lastLineData.text) + 2) * ANIMATION_SPEED

\* lines 177-180: when the last line's last character has started
quoteEndTimeOf(quoteLineData) ==
    LET lastLineData == quoteLineData[Len(quoteLineData)]
    IN  lastLineData.delay + Len(lastLineData.text) * ANIMATION_SPEED

\* lines 379-390: text.split("") gives one span per UTF-16 code unit
quoteColumnOf(lineData) ==
    [charIndex \in 1..Len(lineData.text) |->
        [char |-> <<lineData.text[charIndex]>>,
         delay |-> INITIAL_DELAY + lineData.delay
                       + (charIndex - 1) * ANIMATION_SPEED]]

\* lines 400-410: one span per element of authorText
authorSpansOf(authorText, quoteEndTime) ==
    [index \in 1..Len(authorText) |->
        [char |-> authorText[index],
         delay |-> INITIAL_DELAY + quoteEndTime
                       + (index - 1) * ANIMATION_SPEED]]

\* lines 416-422
logoDelayOf(authorText, quoteEndTime) ==
    INITIAL_DELAY + quoteEndTime + AUTHOR_LOGO_GAP
        + Len(authorText) * ANIMATION_SPEED

\* the QR code scheduled after the ending pause instead of before it
qrcodeHtmlOf_late(authorText, quoteEndTime, hideQrcode) ==
    IF hideQrcode
    THEN <<>>
    ELSE <<INITIAL_DELAY + quoteEndTime + AUTHOR_LOGO_GAP
               + Len(authorText) * ANIMATION_SPEED + ANIMATION_SPEED
               + ENDING_DELAY>>

\* lines 183-194: no img element with --hide-qrcode
qrcodeHtmlOf(authorText, quoteEndTime, hideQrcode) ==
    IF hideQrcode
    THEN <<>>
    ELSE <<INITIAL_DELAY + quoteEndTime + AUTHOR_LOGO_GAP
               + Len(authorText) * ANIMATION_SPEED + ANIMATION_SPEED>>

\* lines 177-428: the animation-delay of every element of the page
htmlContentOf(quoteLineData, authorText, hideQrcode) ==
    LET quoteEndTime == quoteEndTimeOf(quoteLineData)
    IN  [quoteColumns |-> [i \in 1..Len(quoteLineData) |->
                              quoteColumnOf(quoteLineData[i])],
         authorChars |-> authorSpansOf(authorText, quoteEndTime),
         logo |-> logoDelayOf(authorText, quoteEndTime),
         qrcode |-> qrcodeHtmlOf(authorText, quoteEndTime, hideQrcode)]

\* lines 136-428: the animation data, the assets, the duration, the frame
\* count and the page
Calculate ==
    /\ pc = "calc"
    /\ animData' = calculateAnimationData(options.quote, options.author,
                                          ANIMATION_SPEED)
    /\ totalDuration' = totalDurationOf(animData'.baseDuration)
    /\ totalFrames' = totalFramesOf(totalDuration')
    /\ htmlContent' = htmlContentOf(animData'.quoteLineData,
                                    animData'.authorText, options.hideQrcode)
    /\ pc' = "load"
    /\ UNCHANGED speedArg
    /\ UNCHANGED <<options, fsVars, browser, frameCount, inflight, seekTime,
                   captured, duration, startTime, stagesStarted, stagesDone,
                   thumbIndex, removedByRun, exitCode, reported, prevExit>>

\* an await of lines 129-456 rejects (launch, an asset that cannot be read,
\* setContent, the 5 s wait for .poetry-content): the rejection of
\* generateFrames() is unhandled and node ends the process with status 1
SetupFail ==
    /\ pc \in {"launch", "calc", "load"}
    /\ Exit(1, [kind |-> "uncaught", frame |-> -1, cause |-> pc])
    /\ UNCHANGED <<speedArg, htmlContent>>
    /\ UNCHANGED <<options, fsVars, runVars, prevExit>>

(***************************************************************************)
(* generateFrame                                                           *)
(***************************************************************************)
\* line 460, run synchronously by the caller: with frames left the seek of
\* lines 464-474 is issued, otherwise browser.close() of line 494
EnterGenerateFrame(count) ==
    IF count < totalFrames
    THEN /\ pc' = "seek"
         /\ inflight' = {<<"seek", count>>}
    ELSE /\ pc' = "close"
         /\ inflight' = {}

\* lines 439-458 and 561: the page is loaded and generateFrame() is called
LoadPage ==
    /\ pc = "load"
    /\ frameCount' = 0
    /\ EnterGenerateFrame(0)
    /\ UNCHANGED <<speedArg, htmlContent>>
    /\ UNCHANGED <<options, fsVars, browser, animData, totalDuration,
                   totalFrames, seekTime, captured, duration, startTime,
                   stagesStarted, stagesDone, thumbIndex, removedByRun,
                   exitCode, reported, prevExit>>

\* lines 461-478: page.evaluate has set every animation to
\* frameCount / FPS; after 50 ms the screenshot is issued
SeekDone ==
    /\ pc = "seek"
    /\ seekTime' = <<frameCount, FPS>>
    /\ inflight' = {<<"capture", frameCount>>}
    /\ pc' = "capture"
    /\ UNCHANGED <<speedArg, htmlContent>>
    /\ UNCHANGED <<options, fsVars, browser, animData, totalDuration,
                   totalFrames, frameCount, captured, duration, startTime,
                   stagesStarted, stagesDone, thumbIndex, removedByRun,
                   exitCode, reported, prevExit>>

\* a frame index is skipped
nextFrameCount_skip(count) ==
    count + 2

\* line 486
nextFrameCount(count) ==
    count + 1

\* lines 478-487: the screenshot is written, frameCount++ and the recursive
\* call
CaptureDone ==
    /\ pc = "capture"
    /\ frameFiles' = frameFiles \cup {frameCount}
    /\ captured' = Append(captured, frameCount)
    /\ frameCount' = nextFrameCount(frameCount)
    /\ EnterGenerateFrame(frameCount')
    /\ UNCHANGED <<speedArg, htmlContent>>
    /\ UNCHANGED <<options, finalOutput, thumbnail, silentVideo, browser,
                   animData, totalDuration, totalFrames, seekTime, duration,
                   startTime, stagesStarted, stagesDone, thumbIndex,
                   removedByRun, exitCode, reported, prevExit>>

\* a catch that also empties the tmp directory
CatchFrameError_cleanup(cause) ==
    /\ browser' = "closed"
    /\ inflight' = {}
    /\ frameFiles' = {}
    /\ silentVideo' = FALSE
    /\ Exit(1, [kind |-> "frame", frame |-> frameCount, cause |-> cause])
    /\ UNCHANGED <<speedArg, htmlContent>>
    /\ UNCHANGED <<options, finalOutput, thumbnail, animData, totalDuration,
                   totalFrames, frameCount, seekTime, captured, duration,
                   startTime, stagesStarted, stagesDone, thumbIndex,
                   removedByRun, prevExit>>

\* lines 488-491, the catch around the seek, the screenshot and the
\* recursive call: print the frame count, close the browser, exit 1
CatchFrameError(cause) ==
    /\ browser' = "closed"
    /\ inflight' = {}
    /\ Exit(1, [kind |-> "frame", frame |-> frameCount, cause |-> cause])
    /\ UNCHANGED <<speedArg, htmlContent>>
    /\ UNCHANGED <<options, fsVars, animData, totalDuration, totalFrames,
                   frameCount, seekTime, captured, duration, startTime,
                   stagesStarted, stagesDone, thumbIndex, removedByRun,
                   prevExit>>

\* a catch that prints the error and goes on with the next frame
FrameFail_continue ==
    /\ pc \in {"seek", "capture"}
    /\ reported' = [kind |-> "frame", frame |-> frameCount, cause |-> pc]
    /\ frameCount' = frameCount + 1
    /\ EnterGenerateFrame(frameCount')
    /\ UNCHANGED <<speedArg, htmlContent>>
    /\ UNCHANGED <<options, fsVars, browser, animData, totalDuration,
                   totalFrames, seekTime, captured, duration, startTime,
                   stagesStarted, stagesDone, thumbIndex, removedByRun,
                   exitCode, prevExit>>

\* page.evaluate or page.screenshot rejects
FrameFail ==
    /\ pc \in {"seek", "capture"}
    /\ CatchFrameError(pc)

\* line 494
CloseBrowser ==
    /\ pc = "close"
    /\ browser' = "closed"
    /\ pc' = "probe"
    /\ UNCHANGED <<speedArg, htmlContent>>
    /\ UNCHANGED <<options, fsVars, animData, totalDuration, totalFrames,
                   frameCount, inflight, seekTime, captured, duration,
                   startTime, stagesStarted, stagesDone, thumbIndex,
                   removedByRun, exitCode, reported, prevExit>>

\* line 521: Math.max(0, duration - totalDuration - 2), in ms
maxStartTimeOf(d, total) ==
    IF d - total - SAFETY_MARGIN > 0 THEN d - total - SAFETY_MARGIN ELSE 0

\* line 522: Math.floor(Math.random() * maxStartTime), Math.random() in
\* [0, 1): the whole seconds below maxStartTime, 0 when it is 0
startTimesOf(maxStartTime) ==
    {s \in 0..(maxStartTime \div 1000) : s = 0 \/ s * 1000 < maxStartTime}

\* the stage an ffmpeg command is started for
StartStage(stage) ==
    /\ stagesStarted' = Append(stagesStarted, stage)
    /\ pc' = stage

\* lines 501-527: the music file is probed, the start is drawn and the
\* encoding of the frames is started
Probe ==
    /\ pc = "probe"
    /\ \E d \in MusicDurations :
          /\ duration' = d
          /\ startTime' \in startTimesOf(maxStartTimeOf(d, totalDuration))
    /\ StartStage("encode")
    /\ UNCHANGED <<speedArg, htmlContent>>
    /\ UNCHANGED <<options, fsVars, browser, animData, totalDuration,
                   totalFrames, frameCount, inflight, seekTime, captured,
                   stagesDone, thumbIndex, removedByRun, exitCode, reported,
                   prevExit>>

\* lines 525-534: the silent video is written, the thumbnail extraction of
\* frame totalFrames - 1 is started
EncodeDone ==
    /\ pc = "encode"
    /\ silentVideo' = TRUE
    /\ stagesDone' = stagesDone \cup {"encode"}
    /\ thumbIndex' = totalFrames - 1
    /\ StartStage("thumbnail")
    /\ UNCHANGED <<speedArg, htmlContent>>
    /\ UNCHANGED <<options, finalOutput, thumbnail, frameFiles, browser,
                   animData, totalDuration, totalFrames, frameCount, inflight,
                   seekTime, captured, duration, startTime, removedByRun,
                   exitCode, reported, prevExit>>

\* lines 530-541: the thumbnail is written, the audio mux is started
ThumbnailDone ==
    /\ pc = "thumbnail"
    /\ thumbnail' = TRUE
    /\ stagesDone' = stagesDone \cup {"thumbnail"}
    /\ StartStage("mux")
    /\ UNCHANGED <<speedArg, htmlContent>>
    /\ UNCHANGED <<options, finalOutput, frameFiles, silentVideo, browser,
                   animData, totalDuration, totalFrames, frameCount, inflight,
                   seekTime, captured, duration, startTime, thumbIndex,
                   removedByRun, exitCode, reported, prevExit>>

\* lines 537-541: the final video is written
MuxDone ==
    /\ pc = "mux"
    /\ finalOutput' = TRUE
    /\ stagesDone' = stagesDone \cup {"mux"}
    /\ pc' = "cleanup"
    /\ UNCHANGED <<speedArg, htmlContent>>
    /\ UNCHANGED <<options, thumbnail, frameFiles, silentVideo, browser,
                   animData, totalDuration, totalFrames, frameCount, inflight,
                   seekTime, captured, duration, startTime, stagesStarted,
                   thumbIndex, removedByRun, exitCode, reported, prevExit>>

\* lines 543-554: rm of the silent video, unlink of every file of the tmp
\* directory, process.exit(0)
Cleanup ==
    /\ pc = "cleanup"
    /\ silentVideo' = FALSE
    /\ frameFiles' = {}
    /\ removedByRun' = TRUE
    /\ Exit(0, NoReport)
    /\ UNCHANGED <<speedArg, htmlContent>>
    /\ UNCHANGED <<options, finalOutput, thumbnail, browser, animData,
                   totalDuration, totalFrames, frameCount, inflight, seekTime,
                   captured, duration, startTime, stagesStarted, stagesDone,
                   thumbIndex, prevExit>>

\* a failed ffmpeg command is ignored and the next command is started
AssemblyFail_continue ==
    /\ pc \in {"encode", "thumbnail"}
    /\ StartStage(IF pc = "encode" THEN "thumbnail" ELSE "mux")
    /\ UNCHANGED <<speedArg, htmlContent>>
    /\ UNCHANGED <<options, fsVars, browser, animData, totalDuration,
                   totalFrames, frameCount, inflight, seekTime, captured,
                   duration, startTime, stagesDone, thumbIndex, removedByRun,
                   exitCode, reported, prevExit>>

\* lines 506-557: fs.access of the music, ffprobe or an ffmpeg command
\* rejects; the error is rethrown (lines 555-557) out of generateFrame(),
\* into the await of line 487 of the invocation that captured the last
\* frame, whose catch (lines 488-491) handles it
AssemblyFail ==
    /\ pc \in {"probe", "encode", "thumbnail", "mux"}
    /\ CatchFrameError(pc)

\* the program is started again: the file system is what the last run left
NewRun ==
    /\ pc = "exited"
    /\ options' \in RunOptions
    /\ prevExit' = exitCode
    /\ pc' = "start"
    /\ browser' = "none"
    /\ animData' = NoAnimData
    /\ totalDuration' = 0
    /\ totalFrames' = 0
    /\ frameCount' = 0
    /\ inflight' = {}
    /\ seekTime' = <<-1, FPS>>
    /\ captured' = <<>>
    /\ duration' = 0
    /\ startTime' = 0
    /\ stagesStarted' = <<>>
    /\ stagesDone' = {}
    /\ thumbIndex' = -1
    /\ removedByRun' = FALSE
    /\ exitCode' = -1
    /\ reported' = NoReport
    /\ htmlContent' = NoHtml
    /\ UNCHANGED <<speedArg, fsVars>>

Next ==
    \/ CheckOutput
    \/ CleanTmp
    \/ LaunchBrowser
    \/ Calculate
    \/ SetupFail
    \/ LoadPage
    \/ SeekDone
    \/ CaptureDone
    \/ FrameFail
    \/ CloseBrowser
    \/ Probe
    \/ EncodeDone
    \/ ThumbnailDone
    \/ MuxDone
    \/ Cleanup
    \/ AssemblyFail
    \/ NewRun

Spec ==
    Init /\ [][Next]_vars

(***************************************************************************)
(* calculateAnimationData called on its own, on the quotes of SegQuote.    *)
(***************************************************************************)
SegInit ==
    /\ \E c1 \in SegChars, c2 \in SegChars, c3 \in SegChars,
          n1 \in 0..MaxRun, n2 \in 0..MaxRun, n3 \in 0..MaxRun :
          options = [quote |-> SegQuote(c1, n1, c2, n2, c3, n3),
                     author |-> <<>>,
                     force |-> FALSE,
                     hideQrcode |-> FALSE]
    /\ pc = "seg_call"
    /\ finalOutput = FALSE
    /\ thumbnail = FALSE
    /\ frameFiles = {}
    /\ silentVideo = FALSE
    /\ prevExit = -1
    /\ speedArg = ANIMATION_SPEED
    /\ FreshRun

SegCall ==
    /\ pc = "seg_call"
    /\ animData' = calculateAnimationData(options.quote, options.author,
                                          speedArg)
    /\ pc' = "seg_return"
    /\ UNCHANGED <<speedArg, htmlContent>>
    /\ UNCHANGED <<options, fsVars, browser, totalDuration, totalFrames,
                   frameCount, inflight, seekTime, captured, duration,
                   startTime, stagesStarted, stagesDone, thumbIndex,
                   removedByRun, exitCode, reported, prevExit>>

SegNext ==
    SegCall

SegSpec ==
    SegInit /\ [][SegNext]_vars

(***************************************************************************)
(* calculateAnimationData called on its own with any animationSpeed.       *)
(***************************************************************************)
CalcInit ==
    /\ options \in PageOptions
    /\ pc = "seg_call"
    /\ finalOutput = FALSE
    /\ thumbnail = FALSE
    /\ frameFiles = {}
    /\ silentVideo = FALSE
    /\ prevExit = -1
    /\ speedArg \in Speeds
    /\ FreshRun

CalcSpec ==
    CalcInit /\ [][SegNext]_vars

(***************************************************************************)
(* generateFrames from its start to the page it builds, on PageOptions.    *)
(***************************************************************************)
PageInit ==
    /\ options \in PageOptions
    /\ pc = "start"
    /\ finalOutput = FALSE
    /\ thumbnail = FALSE
    /\ frameFiles = {}
    /\ silentVideo = FALSE
    /\ prevExit = -1
    /\ speedArg = ANIMATION_SPEED
    /\ FreshRun

PageNext ==
    \/ CheckOutput
    \/ CleanTmp
    \/ LaunchBrowser
    \/ Calculate

PageSpec ==
    PageInit /\ [][PageNext]_vars

(***************************************************************************)
(* Segmentation (SegSpec).                                                 *)
(***************************************************************************)
\* the texts of the lines calculateAnimationData returned
lineTexts ==
    [i \in 1..Len(animData.quoteLineData) |-> animData.quoteLineData[i].text]

\* q[i..j] lies between two delimiters (or an end of q) and holds none
IsPiece(q, i, j) ==
    /\ i = 1 \/ q[i - 1] \in delimiters
    /\ j = Len(q) \/ q[j + 1] \in delimiters
    /\ \A k \in i..j : q[k] \notin delimiters

\* t is s without its leading and trailing white space
IsTrimOf(t, s) ==
    \E i \in 1..(Len(s) + 1) : \E j \in (i - 1)..Len(s) :
        /\ t = SubSeq(s, i, j)
        /\ \A k \in (1..(i - 1)) \cup ((j + 1)..Len(s)) : s[k] \in WhiteSpace
        /\ i <= j => (s[i] \notin WhiteSpace /\ s[j] \notin WhiteSpace)

\* t is a delimiter-bounded piece of q, as it stands or trimmed
IsDelimiterBoundedPiece(t, q) ==
    \E i \in 1..(Len(q) + 1) : \E j \in (i - 1)..Len(q) :
        /\ IsPiece(q, i, j)
        /\ t = SubSeq(q, i, j) \/ IsTrimOf(t, SubSeq(q, i, j))

OnlyDelimitersAndBlanks(q) ==
    \A i \in 1..Len(q) : q[i] \in delimiters \cup WhiteSpace

\* C1: every line segmentation returns has at most MAX_CHARS_PER_LINE
\* characters or is exactly a delimiter-bounded piece of the quote, on every
\* path, the fallback included.
C1_LineBoundedOrPiece ==
    pc = "seg_return" =>
        \A i \in 1..Len(lineTexts) :
            \/ Len(lineTexts[i]) <= MAX_CHARS_PER_LINE
            \/ IsDelimiterBoundedPiece(lineTexts[i], options.quote)

\* C2: a quote that is empty or holds only delimiters and white space gives
\* exactly one line, the trimmed quote; for every other quote the fallback
\* is not taken: every line is non-empty and free of delimiters.
C2_FallbackOnlyForDelimiterQuotes ==
    pc = "seg_return" =>
        IF OnlyDelimitersAndBlanks(options.quote)
        THEN /\ Len(lineTexts) = 1
             /\ IsTrimOf(lineTexts[1], options.quote)
        ELSE \A i \in 1..Len(lineTexts) :
                /\ Len(lineTexts[i]) > 0
                /\ \A k \in 1..Len(lineTexts[i]) :
                      lineTexts[i][k] \notin delimiters

\* a quote of blanks around delimiters went through the fallback
C2_Witness ==
    /\ pc = "seg_return"
    /\ OnlyDelimitersAndBlanks(options.quote)
    /\ Len(options.quote) >= 3
    /\ options.quote[1] \in WhiteSpace
    /\ options.quote[Len(options.quote)] \in WhiteSpace
    /\ options.quote[2] \in delimiters
    /\ Len(lineTexts) = 1
    /\ Len(lineTexts[1]) < Len(options.quote)
    /\ Len(lineTexts[1]) > 0

\* the delimiter set as the specification states it: the full-width and the
\* ASCII form of comma, period, question mark, exclamation mark, colon and
\* semicolon
StatedDelimiters ==
    {"FW_COMMA", "FW_PERIOD", "FW_QUESTION", "FW_EXCLAMATION", "FW_COLON",
     "FW_SEMICOLON", ",", ".", "?", "!", ":", ";"}

\* C13: the quote is split at every delimiter of the stated set, so when
\* the fallback is not taken no returned line holds a full-width or ASCII
\* comma, period, question mark, exclamation mark, colon or semicolon.
C13_NoStatedDelimiterInLines ==
    (pc = "seg_return" /\ ~OnlyDelimitersAndBlanks(options.quote)) =>
        \A i \in 1..Len(lineTexts) :
            \A k \in 1..Len(lineTexts[i]) :
                lineTexts[i][k] \notin StatedDelimiters

\* the concatenation of the sequences of seqs from index i on
RECURSIVE Concat(_, _)
Concat(seqs, i) ==
    IF i > Len(seqs) THEN <<>> ELSE seqs[i] \o Concat(seqs, i + 1)

\* the lines a piece is to become: ceil(n / MAX_CHARS_PER_LINE) chunks, all
\* but the last of MAX_CHARS_PER_LINE characters
ChunksOf(piece) ==
    LET n == Len(piece)
    IN  IF n <= MAX_CHARS_PER_LINE
        THEN <<piece>>
        ELSE [j \in 1..Ceil(n, MAX_CHARS_PER_LINE) |->
                 SubSeq(piece, MAX_CHARS_PER_LINE * (j - 1) + 1,
                        IF MAX_CHARS_PER_LINE * j < n
                        THEN MAX_CHARS_PER_LINE * j
                        ELSE n)]

\* the chunks of the pieces from index i on, in order
RECURSIVE ChunksOfAll(_, _)
ChunksOfAll(pieces, i) ==
    IF i > Len(pieces)
    THEN <<>>
    ELSE ChunksOf(pieces[i]) \o ChunksOfAll(pieces, i + 1)

\* the lengths of the returned lines
lineLengths ==
    [i \in 1..Len(lineTexts) |-> Len(lineTexts[i])]

\* C14: a trimmed piece of length n > MAX_CHARS_PER_LINE becomes exactly
\* ceil(n / MAX_CHARS_PER_LINE) consecutive lines, all but the last of
\* exactly MAX_CHARS_PER_LINE characters, the last of 1 to
\* MAX_CHARS_PER_LINE, which concatenate to the piece; a shorter piece
\* becomes one line equal to it; 25 undelimited characters give lines of
\* 10, 10 and 5, and two pieces of at most 10 give 2 lines.  Length is
\* line.length, as lines 13-18 take it.
C14_HardWrapInChunks ==
    (pc = "seg_return" /\ ~OnlyDelimitersAndBlanks(options.quote)) =>
        LET pieces == quoteLinesOf(options.quote)
        IN  /\ lineTexts = ChunksOfAll(pieces, 1)
            /\ \A p \in 1..Len(pieces) :
                  LET c == ChunksOf(pieces[p])
                      n == Len(pieces[p])
                  IN  /\ n > MAX_CHARS_PER_LINE
                            => /\ Len(c) * MAX_CHARS_PER_LINE >= n
                               /\ (Len(c) - 1) * MAX_CHARS_PER_LINE < n
                               /\ \A j \in 1..(Len(c) - 1) :
                                     Len(c[j]) = MAX_CHARS_PER_LINE
                               /\ Len(c[Len(c)]) \in 1..MAX_CHARS_PER_LINE
                               /\ Concat(c, 1) = pieces[p]
                      /\ n <= MAX_CHARS_PER_LINE => c = <<pieces[p]>>
            /\ (Len(pieces) = 1 /\ Len(pieces[1]) = 25)
                  => lineLengths = <<10, 10, 5>>
            /\ (Len(pieces) = 2 /\ \A p \in 1..2 :
                                      Len(pieces[p]) <= MAX_CHARS_PER_LINE)
                  => Len(lineTexts) = 2

\* 25 undelimited characters came back as lines of 10, 10 and 5
C14_Witness ==
    /\ pc = "seg_return"
    /\ Len(options.quote) = 25
    /\ \A k \in 1..25 : options.quote[k] \in {"a", "b"}
    /\ lineLengths = <<10, 10, 5>>
    /\ lineTexts[1] \o lineTexts[2] \o lineTexts[3] = options.quote

\* the number of characters (code points) of a text
codePoints(text) ==
    Len(spread(text))

\* C16: characters are counted by code point, not by storage unit: a
\* character of two units counts once toward MAX_CHARS_PER_LINE, toward the
\* duration of its line and the delay of the next, and no hard-wrap
\* boundary falls between its two units.
C16_CountsCodePoints ==
    pc = "seg_return" =>
        LET d == animData.quoteLineData
        IN  /\ \A i \in 1..Len(d) :
                  /\ d[i].duration = codePoints(d[i].text) * speedArg
                  /\ i < Len(d)
                        => /\ d[i + 1].delay - d[i].delay
                                = (codePoints(d[i].text) + 2) * speedArg
                           /\ ~ /\ Len(d[i].text) > 0
                                 /\ Len(d[i + 1].text) > 0
                                 /\ d[i].text[Len(d[i].text)] \in HighSurrogates
                                 /\ d[i + 1].text[1] \in LowSurrogates
            /\ \A p \in DOMAIN quoteLinesOf(options.quote) :
                  codePoints(quoteLinesOf(options.quote)[p])
                        <= MAX_CHARS_PER_LINE
                      => \E i \in 1..Len(d) :
                            d[i].text = quoteLinesOf(options.quote)[p]

\* the positions of q that are neither a delimiter nor white space at an
\* end of a delimiter-bounded piece
KeptPositions(q) ==
    LET bounds == {0, Len(q) + 1} \cup {x \in 1..Len(q) : q[x] \in delimiters}
        inked == {x \in 1..Len(q) : q[x] \notin delimiters \cup WhiteSpace}
    IN  {k \in (1..Len(q)) \ bounds :
            /\ \E a \in inked :
                  a <= k /\ \A x \in bounds : ~(a < x /\ x < k)
            /\ \E b \in inked :
                  k <= b /\ \A x \in bounds : ~(k < x /\ x < b)}

\* the characters of q at the positions of S, in order, from position i on
RECURSIVE Pick(_, _, _)
Pick(q, S, i) ==
    IF i > Len(q)
    THEN <<>>
    ELSE (IF i \in S THEN <<q[i]>> ELSE <<>>) \o Pick(q, S, i + 1)

\* C19: when the fallback is not taken, the returned lines concatenate, in
\* order, to the concatenation of the trimmed non-empty delimiter-bounded
\* pieces of the quote, and every returned line is non-empty.
C19_NothingLostOrReordered ==
    (pc = "seg_return" /\ ~OnlyDelimitersAndBlanks(options.quote)) =>
        /\ Concat(lineTexts, 1)
             = Pick(options.quote, KeptPositions(options.quote), 1)
        /\ Concat(lineTexts, 1) = Concat(quoteLinesOf(options.quote), 1)
        /\ \A i \in 1..Len(lineTexts) : Len(lineTexts[i]) > 0

\* blanks, a piece that is hard-wrapped, blanks again and a second piece
C19_Witness ==
    /\ pc = "seg_return"
    /\ Len(options.quote) > MAX_CHARS_PER_LINE
    /\ options.quote[1] \in WhiteSpace
    /\ Len(lineTexts) >= 3
    /\ Len(lineTexts[1]) = MAX_CHARS_PER_LINE
    /\ Len(Concat(lineTexts, 1)) + 3 <= Len(options.quote)
    /\ \E k \in 2..Len(options.quote) - 1 :
          /\ options.quote[k] \in delimiters
          /\ options.quote[k + 1] \notin delimiters \cup WhiteSpace

(***************************************************************************)
(* The run of the program (Spec).                                          *)
(***************************************************************************)
Stages ==
    <<"encode", "thumbnail", "mux">>

\* the frame indices 0 .. n-1 in increasing order
FirstFrames(n) ==
    [i \in 1..n |-> i - 1]

IsPrefix(s, t) ==
    /\ Len(s) <= Len(t)
    /\ \A i \in 1..Len(s) : s[i] = t[i]

\* the run has done none of its work
NoWorkDone ==
    /\ browser = "none"
    /\ ~removedByRun
    /\ captured = <<>>
    /\ seekTime[1] = -1
    /\ inflight = {}
    /\ stagesStarted = <<>>
    /\ stagesDone = {}

\* C3: with the final output present and --force not given the run ends
\* with status 1 before any work: no tmp file is deleted, no browser is
\* launched, nothing is sought or captured, no ffmpeg stage runs; so a run
\* without --force that follows a successful run ends this way.
C3_ConflictEndsRunBeforeAnyWork ==
    /\ [][(pc = "start" /\ finalOutput /\ ~options.force)
             => /\ pc' = "exited"
                /\ exitCode' = 1
                /\ reported'.kind = "conflict"
                /\ UNCHANGED <<fsVars, runVars>>]_vars
    /\ [](reported.kind = "conflict" => (pc = "exited" /\ NoWorkDone))
    /\ []((prevExit = 0 /\ ~options.force)
             => /\ finalOutput
                /\ pc \in {"start", "exited"}
                /\ pc = "exited" => (exitCode = 1 /\ reported.kind = "conflict"))

\* a run was refused while frames of an earlier, failed run lay in the tmp
\* directory
C3_Witness ==
    /\ pc = "exited"
    /\ exitCode = 1
    /\ reported.kind = "conflict"
    /\ frameFiles # {}
    /\ NoWorkDone

\* C4: the stages start in the order encode, thumbnail, mux, each after the
\* one before has completed and after every frame 0 .. totalFrames-1 has
\* been captured; after a failed stage no later stage is started.
C4_StagesInStrictOrder ==
    /\ IsPrefix(stagesStarted, Stages)
    /\ \A i \in 1..Len(stagesStarted) :
          /\ i < Len(stagesStarted) => stagesStarted[i] \in stagesDone
          /\ captured = FirstFrames(totalFrames)
    /\ \A s \in stagesDone : \E i \in 1..Len(stagesStarted) : stagesStarted[i] = s
    /\ pc \in {"encode", "thumbnail", "mux"}
          => (stagesStarted[Len(stagesStarted)] = pc /\ pc \notin stagesDone)
    /\ reported.cause \in {"encode", "thumbnail", "mux"}
          => /\ pc = "exited"
             /\ stagesStarted[Len(stagesStarted)] = reported.cause
             /\ reported.cause \notin stagesDone

\* a run went through the three stages
C4_Witness ==
    /\ pc = "exited"
    /\ exitCode = 0
    /\ stagesStarted = Stages
    /\ stagesDone = {"encode", "thumbnail", "mux"}
    /\ Len(captured) = totalFrames
    /\ totalFrames > 0

\* C5: a failed assembly stage ends the run with status 1 and is reported
\* as an encode error naming the stage, never as a frame error; a frame
\* error is reported only for a failed seek or capture of a frame f with
\* 0 <= f < totalFrames, and carries f.
C5_StageFailureIsEncodeError ==
    /\ reported.cause \in {"encode", "thumbnail", "mux"}
          => (exitCode = 1 /\ reported.kind = "encode")
    /\ reported.kind = "frame"
          => /\ reported.cause \in {"seek", "capture"}
             /\ reported.frame \in 0..(totalFrames - 1)

\* C6: the frames 0, 1, ..., totalFrames-1 are processed in increasing
\* order, each once, the seek to f / FPS and then the capture of f before
\* anything is done for f + 1; at most one seek or capture is outstanding.
C6_FramesSampledInOrder ==
    /\ frameCount <= totalFrames
    /\ captured = FirstFrames(frameCount)
    /\ Cardinality(inflight) <= 1
    /\ pc = "seek"
          => /\ inflight = {<<"seek", frameCount>>}
             /\ seekTime = <<frameCount - 1, FPS>>
    /\ pc = "capture"
          => /\ inflight = {<<"capture", frameCount>>}
             /\ seekTime = <<frameCount, FPS>>
    /\ pc \notin {"seek", "capture"} => inflight = {}
    /\ pc \in {"close", "probe", "encode", "thumbnail", "mux", "cleanup"}
          => frameCount = totalFrames

\* the last frame of a run is being captured
C6_Witness ==
    /\ pc = "capture"
    /\ frameCount = totalFrames - 1
    /\ frameCount > 1
    /\ seekTime = <<totalFrames - 1, FPS>>
    /\ captured = FirstFrames(totalFrames - 1)

\* C7: a failed seek or capture of frame f ends the run: f is not tried
\* again, no frame beyond f is sought or captured, no assembly stage is
\* started, the status is 1 and the report carries f.
C7_FrameFailureAbortsRun ==
    reported.cause \in {"seek", "capture"}
        => /\ pc = "exited"
           /\ exitCode = 1
           /\ reported.kind = "frame"
           /\ reported.frame = frameCount
           /\ reported.frame \in 0..(totalFrames - 1)
           /\ captured = FirstFrames(reported.frame)
           /\ seekTime[1] = (IF reported.cause = "seek"
                                THEN reported.frame - 1 ELSE reported.frame)
           /\ inflight = {}
           /\ stagesStarted = <<>>

\* the capture of a frame in the middle of a run failed
C7_Witness ==
    /\ pc = "exited"
    /\ reported.cause = "capture"
    /\ reported.frame > 0
    /\ reported.frame < totalFrames - 1
    /\ exitCode = 1

\* C8: a feasible plan has 0 <= startOffset <= trackDuration -
\* totalDuration - 2 s; with trackDuration < totalDuration + 2 s the run
\* fails and no audio mux is performed, the start is not clamped to 0.
C8_StartOffsetInRangeOrInfeasible ==
    Len(stagesStarted) > 0
        => IF duration >= totalDuration + SAFETY_MARGIN
           THEN /\ 0 <= startTime
                /\ startTime * 1000 <= duration - totalDuration - SAFETY_MARGIN
           ELSE /\ \A i \in 1..Len(stagesStarted) : stagesStarted[i] # "mux"
                /\ exitCode # 0

C10_TotalFramesIsCeiling ==
    /\ pc \notin {"start", "clean", "launch", "calc", "exited"}
          => /\ totalFrames > 0
             /\ (totalFrames - 1) * 1000 < totalDuration * FPS
             /\ totalFrames * 1000 >= totalDuration * FPS
    /\ pc \in {"close", "probe", "encode", "thumbnail", "mux", "cleanup"}
          => /\ captured[Len(captured)] = totalFrames - 1
             /\ seekTime = <<totalFrames - 1, FPS>>
    /\ (\E i \in 1..Len(stagesStarted) : stagesStarted[i] = "thumbnail")
          => thumbIndex = totalFrames - 1

\* the thumbnail of a run of 4.5 s, 135 frames, is being extracted
C10_Witness ==
    /\ pc = "thumbnail"
    /\ totalDuration = 4500
    /\ totalFrames = 135
    /\ thumbIndex = 134
    /\ Len(captured) = 135

\* C18: when the first assembly stage starts, the frame files of the tmp
\* directory are exactly frames 0 .. totalFrames-1 captured by this run:
\* what earlier runs left was removed before the first capture, and no file
\* is removed between the first capture and the end of the audio mux.
C18_FramesAreThisRunsFrames ==
    /\ [](pc \in {"load", "seek", "capture", "close", "probe"}
             => frameFiles = {captured[i] : i \in 1..Len(captured)})
    /\ [](pc \in {"encode", "thumbnail", "mux"}
             => /\ Len(captured) = totalFrames
                /\ frameFiles = 0..(totalFrames - 1)
                /\ frameFiles = {captured[i] : i \in 1..Len(captured)})
    /\ [][(captured # <<>> /\ pc \notin {"cleanup", "exited"})
             => frameFiles \subseteq frameFiles']_vars

\* the encoding starts in a run that found and removed the files a failed
\* run had left
C18_Witness ==
    /\ pc = "encode"
    /\ prevExit = 1
    /\ removedByRun
    /\ stagesDone = {}
    /\ totalFrames > 0
    /\ frameFiles = 0..(totalFrames - 1)

(***************************************************************************)
(* The timeline (CalcSpec, PageSpec).                                      *)
(***************************************************************************)
\* C11: for every animationSpeed > 0 and every list of lines the first
\* delay is 0, each next delay is the one before plus (len + 2) *
\* animationSpeed, each duration is len * animationSpeed, and the delays
\* never decrease.
C11_DelaysAccumulate ==
    pc = "seg_return" =>
        LET d == animData.quoteLineData
        IN  /\ Len(d) >= 1
            /\ d[1].delay = 0
            /\ \A i \in 1..Len(d) :
                  /\ d[i].duration = Len(d[i].text) * speedArg
                  /\ i < Len(d)
                        => /\ d[i + 1].delay
                                = d[i].delay + (Len(d[i].text) + 2) * speedArg
                           /\ d[i + 1].delay >= d[i].delay

\* three lines of 1, 2 and 1 characters at 0.1 s per character
C11_Witness ==
    /\ pc = "seg_return"
    /\ speedArg = 100
    /\ options.quote = <<"a", ",", "a", "a", ",", "a">>
    /\ Len(animData.quoteLineData) = 3
    /\ animData.quoteLineData[2].delay = 300
    /\ animData.quoteLineData[3].delay = 700
    /\ animData.quoteLineData[2].duration = 200

\* the sum over the lines from i on of (len + 2) * ANIMATION_SPEED
RECURSIVE SumOfAdvances(_, _)
SumOfAdvances(d, i) ==
    IF i > Len(d)
    THEN 0
    ELSE (Len(d[i].text) + 2) * ANIMATION_SPEED + SumOfAdvances(d, i + 1)

\* C12: baseDuration is the sum over the lines of (len + 2) * unitSpeed
\* plus len(authorChars) * unitSpeed, and totalDuration = initialDelay +
\* baseDuration + authorLogoGap + endingDelay; one line of 4 characters and
\* an author of 2 give baseDuration 4.0 s, totalDuration 7.0 s, 210 frames.
C12_BaseAndTotalDuration ==
    pc = "load" =>
        LET d == animData.quoteLineData
            n == Len(animData.authorText)
        IN  /\ animData.baseDuration
                 = SumOfAdvances(d, 1) + n * ANIMATION_SPEED
            /\ totalDuration
                 = INITIAL_DELAY + animData.baseDuration + AUTHOR_LOGO_GAP
                       + ENDING_DELAY
            /\ (Len(d) = 1 /\ Len(d[1].text) = 4 /\ n = 2)
                  => /\ animData.baseDuration = 4000
                     /\ totalDuration = 7000
                     /\ totalFrames = 210

\* the run for a quote of one line of 4 characters and an author of 2
C12_Witness ==
    /\ pc = "load"
    /\ options.quote = <<"a", "a", "a", "a">>
    /\ options.author = <<"x", "y">>
    /\ animData.baseDuration = 4000
    /\ totalDuration = 7000
    /\ totalFrames = 210

\* the animation-delay of every quote-char span of the page
quoteCharDelays ==
    UNION {{htmlContent.quoteColumns[l][c].delay :
                c \in DOMAIN htmlContent.quoteColumns[l]} :
           l \in DOMAIN htmlContent.quoteColumns}

\* the animation-delay of every author-char span of the page
authorCharDelays ==
    {htmlContent.authorChars[k].delay : k \in DOMAIN htmlContent.authorChars}

\* the animation-delay of the QR code, when the page has one
qrcodeDelays ==
    {htmlContent.qrcode[k] : k \in DOMAIN htmlContent.qrcode}

\* C15: the author starts at quoteEndTime = lastLine.delay +
\* len(lastLine.text) * unitSpeed, which is the accumulated delay less the
\* two-unit gap; author character k starts at quoteEndTime + k * unitSpeed;
\* the logo starts at quoteEndTime + authorLogoGap + len(authorChars) *
\* unitSpeed, after every quote and author character; the QR code starts
\* unitSpeed after the logo when enabled and is absent when suppressed.
\* Times on the page are these values after the initial delay.
C15_AuthorLogoQrcodeSchedule ==
    pc = "load" =>
        LET d == animData.quoteLineData
            n == Len(animData.authorText)
            qe == d[Len(d)].delay + Len(d[Len(d)].text) * ANIMATION_SPEED
        IN  /\ qe = animData.baseDuration - n * ANIMATION_SPEED
                     - 2 * ANIMATION_SPEED
            /\ Len(htmlContent.authorChars) = n
            /\ \A k \in 1..n :
                  /\ htmlContent.authorChars[k].char = animData.authorText[k]
                  /\ htmlContent.authorChars[k].delay - INITIAL_DELAY
                       = qe + (k - 1) * ANIMATION_SPEED
            /\ htmlContent.logo - INITIAL_DELAY
                 = qe + AUTHOR_LOGO_GAP + n * ANIMATION_SPEED
            /\ \A t \in quoteCharDelays \cup authorCharDelays :
                  t < htmlContent.logo
            /\ options.hideQrcode => htmlContent.qrcode = <<>>
            /\ ~options.hideQrcode
                  => htmlContent.qrcode
                       = <<htmlContent.logo + ANIMATION_SPEED>>

\* lines "a" and "aa", author "xy", QR code shown: the quote ends at 2.5 s
C15_Witness ==
    /\ pc = "load"
    /\ options.quote = <<"a", ",", "a", "a">>
    /\ options.author = <<"x", "y">>
    /\ ~options.hideQrcode
    /\ htmlContent.authorChars[1].delay = INITIAL_DELAY + 2500
    /\ htmlContent.authorChars[2].delay = INITIAL_DELAY + 3000
    /\ htmlContent.logo = INITIAL_DELAY + 4000
    /\ htmlContent.qrcode = <<INITIAL_DELAY + 4500>>

\* C17: every scheduled start (quote characters, author characters, logo,
\* QR code, all with the initial delay) lies in [initialDelay,
\* totalDuration - endingDelay]; the QR code is the latest and starts at
\* totalDuration - endingDelay - unitSpeed, so none starts at or after the
\* time of the last sampled frame.
C17_RevealsInsideTimeline ==
    pc = "load" =>
        LET starts == quoteCharDelays \cup authorCharDelays
                          \cup {htmlContent.logo} \cup qrcodeDelays
        IN  /\ \A t \in starts :
                  /\ INITIAL_DELAY <= t
                  /\ t <= totalDuration - ENDING_DELAY
                  /\ t * FPS < (totalFrames - 1) * 1000
            /\ \A q \in qrcodeDelays :
                  /\ q = totalDuration - ENDING_DELAY - ANIMATION_SPEED
                  /\ \A t \in starts : t <= q

\* a page of three columns, an author of one astral character and a QR code
C17_Witness ==
    /\ pc = "load"
    /\ Len(htmlContent.quoteColumns) = 3
    /\ options.author = <<"HI", "LO">>
    /\ Len(htmlContent.authorChars) = 1
    /\ qrcodeDelays = {totalDuration - ENDING_DELAY - ANIMATION_SPEED}
    /\ INITIAL_DELAY \in quoteCharDelays

====
